---- MODULE Spec2Model ----
(***************************************************************************)
(* A model of the gateway request pipeline of gngpp/ninja:                 *)
(*   - the typed client OpenGPT (openai/src/api/opengpt.rs): request,      *)
(*     response_handle, err_handle and post_conversation_completions;      *)
(*   - the gateway handlers (openai/src/serve/mod.rs): header_convert,     *)
(*     response_handle and the proxy routes;                               *)
(*   - the /oauth handlers and the credential they obtain;                 *)
(*   - the token bucket the Launcher installs (serve/tokenbucket.rs) and   *)
(*     the service chain that runs it before the handlers.                 *)
(* Each component has a specification of its own (SpecDecode, SpecClient,  *)
(* SpecGateway, SpecOAuth, SpecBucket, SpecServe); Spec is their           *)
(* interleaving.                                                           *)
(***************************************************************************)
EXTENDS Integers, Sequences, FiniteSets, TLC

VARIABLES
    dpc,        \* post_conversation_completions: "idle" | "streaming" | "done"
    consumed,   \* the stream items the while-let loop has read, in order
    item,       \* what stream.next() gave last: "unread" | "chunk" | "error" | "end"
    v,          \* the Vec of decoded records (line 207)
    dres,       \* what the call returned
    cpc,        \* OpenGPT::request: "idle" | "sent" | "done"
    ccall,      \* the call of the typed client that is being served
    creq,       \* the request the typed client sent
    cresp,      \* what the upstream answered
    cres,       \* what the call returned
    csends,     \* how many times the call has run send() (line 38)
    access_token, \* OpenGPT.access_token: the String inside the RwLock
    gpc,        \* a gateway handler: "idle" | "sent" | "streaming" | "done"
    greq,       \* the inbound HttpRequest the handler holds
    upreq,      \* the request the handler sent upstream
    upresp,     \* what the upstream has answered so far
    gresp,      \* the HttpResponse the caller has received so far
    gsends,     \* how many times the handler has run send()
    tb,         \* the token bucket settings the Launcher runs with
    buckets,    \* each worker's table of buckets, by admission key
    last,       \* the last admission check and what it returned
    clock,      \* the ticks since the Launcher started the server
    admitted,   \* by admission key, the checks that returned Admitted since then
    launcher,   \* the Launcher that runs the server, with its tb_enable
    spc,        \* a request in a worker's service chain:
                \* "idle" | "handler" | "sent" | "answered"
    sreq,       \* that request: its worker, key, admission, upstream call, response
    opc,        \* an /oauth handler: "idle" | "called" | "done"
    oreq,       \* the inbound request the handler holds
    ocall,      \* the call the handler made to the identity provider
    oresp,      \* the HttpResponse the handler returned
    osends,     \* how many times the handler has called the provider
    INIT,       \* static INIT: Once: "incomplete" | "running" | "complete"
    CLIENT,     \* static mut CLIENT: Option<Client>
    OAUTH_CLIENT, \* static mut OAUTH_CLIENT: Option<OAuthClient>
    rpc,        \* each call of Launcher::run:
                \* "idle" | "built" | "once" | "serving" | "returned"
    inits,      \* the run calls whose call_once closure has run, in order
    hpc,        \* a handler of a running server: "idle" | "read"
    hread       \* what client() or oauth_client() gave that handler

decodeVars == <<dpc, consumed, item, v, dres>>
clientVars == <<cpc, ccall, creq, cresp, cres, csends, access_token>>

gatewayVars == <<gpc, greq, upreq, upresp, gresp, gsends>>
bucketVars == <<tb, buckets, last, clock, admitted, launcher>>
serveVars == <<spc, sreq>>
oauthVars == <<opc, oreq, ocall, oresp, osends>>
\* One call of the typed client, without the credential it reads.
requestVars == <<cpc, ccall, creq, cresp, cres, csends>>
staticVars == <<INIT, CLIENT, OAUTH_CLIENT, rpc, inits, hpc, hread>>

vars == <<dpc, consumed, item, v, dres, cpc, ccall, creq, cresp, cres, csends, access_token,
          gpc, greq, upreq, upresp, gresp, gsends, tb, buckets, last, clock, admitted,
          launcher, spc, sreq, opc, oreq, ocall, oresp, osends,
          INIT, CLIENT, OAUTH_CLIENT, rpc, inits, hpc, hread>>

\* What an action of one component leaves alone: the other components.
exceptDecode == <<clientVars, gatewayVars, bucketVars, serveVars, oauthVars, staticVars>>
exceptClient == <<decodeVars, gatewayVars, bucketVars, serveVars, oauthVars, staticVars>>
exceptGateway == <<decodeVars, clientVars, bucketVars, serveVars, oauthVars, staticVars>>
exceptBucket == <<decodeVars, clientVars, gatewayVars, serveVars, oauthVars, staticVars>>
\* The service chain runs the rate limiter: it leaves the others alone.
exceptServe == <<decodeVars, clientVars, gatewayVars, oauthVars, staticVars>>
\* The OAuth lifecycle writes the credential: it leaves the others alone.
exceptOAuth == <<decodeVars, requestVars, gatewayVars, bucketVars, serveVars, staticVars>>
exceptStatic == <<decodeVars, clientVars, gatewayVars, bucketVars, serveVars, oauthVars>>

(***************************************************************************)
(* Bounds                                                                  *)
(***************************************************************************)
\* The lines one upstream stream carries, over all its chunks.
MaxLines == 4
\* The headers of one inbound request.
MaxInHeaders == 3
\* The headers of one upstream response.
MaxRespHeaders == 2
\* The body chunks of one upstream response.
MaxBody == 2
\* The clock ticks in one second: token counts are fixed-point numbers with
\* this many units to the token.
TicksPerSecond == 2
\* The ticks a bucket is followed without an admission check.
MaxIdle == 4
\* The ticks the server is followed after its launch.
MaxClock == 5
MaxRuns == 3

(***************************************************************************)
(* ApiResult and ApiError.  An error is its variant and the pieces of its  *)
(* message; a variant without a payload has no pieces.                     *)
(***************************************************************************)
Pending == [tag |-> "Pending"]
NoValue == [tag |-> "None"]
OkVec(vec) == [tag |-> "Ok", v |-> vec]
Err(e, msg) == [tag |-> "Err", err |-> e, msg |-> msg]

\* `?` on a reqwest::Error: the error leaves the function through
\* From<reqwest::Error> for ApiError (api/mod.rs), untouched by err_handle.
\* Spec 4.3: a transport failure is FailedRequest(message).
ReqwestErr == Err("FailedRequestError", <<"reqwest::Error">>)

(***************************************************************************)
(* The upstream's answers.                                                 *)
(***************************************************************************)
Statuses == {200, 302, 400, 401, 402, 403, 404, 408, 429, 500, 501, 502, 503, 504}

BodyJson == "{\"ok\":true}"
BodyText == "upstream says no"
Bodies == {BodyJson, BodyText}

Urls == {"/backend-api/models", "/backend-api/accounts/check"}

\* A response: its status, its body, and whether the body can be read to
\* its end (resp.text() and resp.json() fail on a broken transfer).
Responses == [status : Statuses, body : Bodies, readable : BOOLEAN]

\* StatusCode::is_client_error and is_server_error.
is_client_error(s) == 400 <= s /\ s < 500
is_server_error(s) == 500 <= s /\ s < 600

\* Response::error_for_status_ref: Err exactly for a 4xx or 5xx status.
error_for_status_ref(resp) == is_client_error(resp.status) \/ is_server_error(resp.status)

\* The statuses named by the match arm of lines 90-105.
MatchedStatuses == {401, 408, 429, 400, 402, 403, 500, 502, 503, 504}

\* format!("error: {}, url: {}", resp.text().await?, url) (line 88).
err_msg(body, url) == <<"error: ", body, ", url: ", url>>

\* err_handle with the 429 test lost: 429 falls through to BadRequest.
err_handle_without_429(status, resp, url) ==
    IF ~resp.readable THEN ReqwestErr
    ELSE IF status \in MatchedStatuses
    THEN IF status = 401 THEN Err("BadAuthenticationError", err_msg(resp.body, url))
         ELSE IF is_client_error(status) THEN Err("BadRequestError", err_msg(resp.body, url))
         ELSE Err("ServerError", <<>>)
    ELSE Err("FailedRequestError", err_msg(resp.body, url))

\* err_handle (lines 82-119), given err.status(), the response and its url.
\* Its own `?` on resp.text() returns the transport error.
err_handle(status, resp, url) ==
    IF ~resp.readable THEN ReqwestErr
    ELSE IF status \in MatchedStatuses
    THEN IF status = 401 THEN Err("BadAuthenticationError", err_msg(resp.body, url))
         ELSE IF status = 429 THEN Err("TooManyRequestsError", err_msg(resp.body, url))
         ELSE IF is_client_error(status) THEN Err("BadRequestError", err_msg(resp.body, url))
         ELSE Err("ServerError", <<>>)
    ELSE Err("FailedRequestError", err_msg(resp.body, url))

\* json with the decode failure passed on through `?` instead of map_err.
json_without_map_err(resp) ==
    IF resp.readable /\ resp.body = BodyJson
    THEN [tag |-> "Ok", v |-> <<"ok", TRUE>>]
    ELSE ReqwestErr

\* resp.json::<U>() (lines 74-77): the body must arrive whole and be the JSON
\* of a U.
json(resp) ==
    IF resp.readable /\ resp.body = BodyJson
    THEN [tag |-> "Ok", v |-> <<"ok", TRUE>>]
    ELSE Err("JsonReqwestDeserializeError", <<>>)

\* OpenGPT::response_handle (lines 72-80).
api_response_handle(resp, url) ==
    IF error_for_status_ref(resp)
    THEN err_handle(resp.status, resp, url)
    ELSE json(resp)

\* A bearer token is a string of several parts; a credential is the whole
\* string.  The builder starts with the empty String (RwLock::default(),
\* line 367).
TokenA == <<"header.a", "payload.a", "signature.a">>
TokenB == <<"header.b", "payload.b", "signature.b">>
Tokens == {TokenA, TokenB}
EmptyToken == <<>>

\* RequestBuilder::bearer_auth (line 37): the Authorization header value.
bearer_auth(token) == <<"Bearer ">> \o token

\* A refresh that overwrites the stored String in place and stops after
\* its first part.
refresh_token_in_place(old, new) ==
    IF old = EmptyToken THEN new ELSE <<new[1]>> \o Tail(old)

\* refresh_token (lines 298-302): self.access_token = RwLock::new(access_token),
\* the whole String replaced by one assignment.
refresh_token(old, new) == new

\* Option<&str>: None, or Some(id).
None == <<>>
Some(x) == <<x>>

RequestMethods == {"GET", "POST", "PATCH", "PUT", "DELETE"}

\* The calls of the typed client: request and request_payload with any
\* RequestMethod, and the methods of lines 122-296 that use them, of which
\* get_conversation and patch_conversation take an optional conversation id.
ApiCalls ==
    {[name |-> "request", via |-> "request", method |-> m, url |-> url,
      conversation_id |-> None] : m \in RequestMethods, url \in Urls}
    \cup {[name |-> "request_payload", via |-> "request_payload", method |-> m, url |-> url,
           conversation_id |-> None] : m \in RequestMethods, url \in Urls}
    \cup {[name |-> "get_conversation", via |-> "request", method |-> "GET",
           url |-> "/backend-api/conversation/{conversation_id}",
           conversation_id |-> id] : id \in {None, Some("id1")}}
    \cup {[name |-> "patch_conversation", via |-> "request_payload", method |-> "PATCH",
           url |-> "/backend-api/conversation/{conversation_id}",
           conversation_id |-> id] : id \in {None, Some("id1")}}

\* request_payload with every method sent on.
payload_method_any(method) == TRUE

\* The match of lines 54-64: request_payload sends POST, PATCH, PUT and
\* DELETE.
payload_method_supported(method) == method \in {"POST", "PATCH", "PUT", "DELETE"}

\* What a call returns before it sends anything, if it does: lines 148-157
\* and 237-247 (conversation_id is None) and lines 59-63.
before_dispatch(call) ==
    IF call.name \in {"get_conversation", "patch_conversation"} /\ call.conversation_id = None
    THEN Err("RequiredParameter", <<"conversation_id">>)
    ELSE IF call.via = "request_payload" /\ ~payload_method_supported(call.method)
    THEN Err("FailedRequestError", <<"not supported method">>)
    ELSE NoValue

InitClient ==
    /\ cpc = "idle"
    /\ ccall = NoValue
    /\ creq = NoValue
    /\ cresp = NoValue
    /\ cres = Pending
    /\ csends = 0
    /\ access_token = EmptyToken

\* OpenGPT::request after send() (lines 38-40): `?` returns the transport
\* error and the result of response_handle is returned as it is; no branch
\* leads back to send().  "sent": the request is issued again.
after_send_retries_on_error(result) == IF result.tag = "Err" THEN "sent" ELSE "done"

after_send(result) == "done"

\* OpenGPT::request (lines 25-39) up to send(): the read guard of line 29 is
\* taken and the token it guards goes into the request (line 37).
ClientRequest ==
    /\ cpc = "idle"
    /\ \E call \in ApiCalls :
         /\ before_dispatch(call) = NoValue
         /\ ccall' = call
         /\ creq' = [tag |-> "Req", url |-> call.url, method |-> call.method,
                     authorization |-> bearer_auth(access_token)]
    /\ cpc' = "sent"
    /\ csends' = csends + 1
    /\ UNCHANGED <<cresp, cres, access_token>>
    /\ UNCHANGED exceptClient

\* A call that returns an error before it sends anything.
ClientReject ==
    /\ cpc = "idle"
    /\ \E call \in ApiCalls :
         /\ before_dispatch(call) # NoValue
         /\ ccall' = call
         /\ cres' = before_dispatch(call)
    /\ cpc' = "done"
    /\ UNCHANGED <<creq, cresp, csends, access_token>>
    /\ UNCHANGED exceptClient

\* RefreshToken::refresh_token(&mut self, access_token): the exclusive
\* borrow exists only while no request, which borrows &self until its future
\* completes, is in flight.
ClientRefresh ==
    /\ cpc # "sent"
    /\ \E new \in Tokens :
         /\ new # access_token
         /\ access_token' = refresh_token(access_token, new)
    /\ UNCHANGED requestVars
    /\ UNCHANGED exceptClient

\* send().await? fails (connect, timeout): line 39 returns the error.
ClientSendFail ==
    /\ cpc = "sent"
    /\ cresp' = [tag |-> "SendFailed"]
    /\ cres' = ReqwestErr
    /\ cpc' = after_send(cres')
    /\ csends' = IF after_send(cres') = "sent" THEN csends + 1 ELSE csends
    /\ UNCHANGED <<ccall, creq, access_token>>
    /\ UNCHANGED exceptClient

\* The upstream answers and line 40 hands the response to response_handle.
ClientRespond ==
    /\ cpc = "sent"
    /\ \E resp \in Responses :
         /\ cresp' = [tag |-> "Resp", resp |-> resp]
         /\ cres' = api_response_handle(resp, creq.url)
    /\ cpc' = after_send(cres')
    /\ csends' = IF after_send(cres') = "sent" THEN csends + 1 ELSE csends
    /\ UNCHANGED <<ccall, creq, access_token>>
    /\ UNCHANGED exceptClient

\* The caller takes the result; the client serves the next call.
ClientReturn ==
    /\ cpc = "done"
    /\ cpc' = "idle"
    /\ ccall' = NoValue
    /\ creq' = NoValue
    /\ cresp' = NoValue
    /\ cres' = Pending
    /\ csends' = 0
    /\ UNCHANGED access_token
    /\ UNCHANGED exceptClient

NextClient ==
    \/ ClientRequest \/ ClientReject \/ ClientSendFail \/ ClientRespond \/ ClientReturn
    \/ ClientRefresh


(***************************************************************************)
(* Text.  A line is the sequence of its pieces; a chunk is the sequence of *)
(* its lines (the text of the chunk is its lines joined by "\n").          *)
(***************************************************************************)
DataPrefix == "data: "
JsonA == "{\"id\":\"a\"}"
JsonB == "{\"id\":\"b\"}"
JsonBad == "{\"id\":"
DoneMark == "[DONE]"
InvalidBytes == "0xFF"

\* The pieces that begin with "{".
BracePieces == {JsonA, JsonB, JsonBad}

LineA == <<DataPrefix, JsonA>>
LineB == <<DataPrefix, JsonB>>
LineBad == <<DataPrefix, JsonBad>>
LineDone == <<DataPrefix, DoneMark>>
LineOther == <<"event: ping">>
LineBlank == <<>>
LineInvalid == <<InvalidBytes>>

Lines == {LineA, LineB, LineBad, LineDone, LineOther, LineBlank, LineInvalid}

\* A chunk of the byte stream: at least one line.
ChunksUpTo(n) == UNION {[1..k -> Lines] : k \in 1..n}

\* String::from_utf8 (line 212) fails when any byte of the chunk is invalid.
from_utf8_ok(chunk) == \A i \in 1..Len(chunk) : InvalidBytes \notin {chunk[i][j] : j \in 1..Len(chunk[i])}

\* body.starts_with("data: {") (line 214): the text of the chunk begins with
\* its first line.
starts_with_data_brace(chunk) ==
    /\ Len(chunk[1]) >= 2
    /\ chunk[1][1] = DataPrefix
    /\ chunk[1][2] \in BracePieces

\* body.starts_with("data: [DONE]") (line 222).
starts_with_done(chunk) ==
    /\ Len(chunk[1]) >= 2
    /\ chunk[1][1] = DataPrefix
    /\ chunk[1][2] = DoneMark

\* body.lines().filter(|s| !s.is_empty()) (line 215).
non_empty_lines(chunk) == SelectSeq(chunk, LAMBDA l : Len(l) > 0)

\* ele.trim_start_matches("data: ") (line 217): every leading repetition of
\* the prefix is removed.
RECURSIVE trim_start_matches(_)
trim_start_matches(line) ==
    IF Len(line) > 0 /\ line[1] = DataPrefix
    THEN trim_start_matches(Tail(line))
    ELSE line

\* serde_json::from_str::<resp::PostConvoResponse> (line 218): the text must
\* be one complete JSON object.
from_str(text) ==
    IF text = <<JsonA>> THEN [ok |-> TRUE, rec |-> [id |-> "a"]]
    ELSE IF text = <<JsonB>> THEN [ok |-> TRUE, rec |-> [id |-> "b"]]
    ELSE [ok |-> FALSE, rec |-> [id |-> "none"]]

\* The for loop of lines 216-221 over the lines of one chunk: Ok(v) with
\* every line pushed, or the first parse error.
RECURSIVE parse_lines(_, _)
parse_lines(vec, ls) ==
    IF ls = <<>> THEN [k |-> "next", v |-> vec]
    ELSE LET res == from_str(trim_start_matches(Head(ls)))
         IN IF res.ok
            THEN parse_lines(Append(vec, res.rec), Tail(ls))
            ELSE [k |-> "err", v |-> vec]

\* One iteration of the while-let loop (lines 210-225) on a chunk that was
\* read without a transport error.
loop_body(vec, chunk) ==
    IF ~from_utf8_ok(chunk) THEN [k |-> "utf8", v |-> vec]
    ELSE IF starts_with_data_brace(chunk) THEN parse_lines(vec, non_empty_lines(chunk))
    ELSE IF starts_with_done(chunk) THEN [k |-> "break", v |-> vec]
    ELSE [k |-> "next", v |-> vec]

\* The result of one loop iteration as the call's state.
AfterChunk(step) ==
    CASE step.k = "next"  -> [pc |-> "streaming", v |-> step.v, res |-> Pending]
      [] step.k = "break" -> [pc |-> "done", v |-> step.v, res |-> OkVec(step.v)]
      [] step.k = "utf8"  -> [pc |-> "done", v |-> step.v, res |-> Err("FromUtf8Error", <<>>)]
      [] step.k = "err"   -> [pc |-> "done", v |-> step.v, res |-> Err("SerdeDeserializeError", <<>>)]

RECURSIVE TotalLines(_)
TotalLines(items) ==
    IF items = <<>> THEN 0 ELSE Len(Head(items)) + TotalLines(Tail(items))

\* The loop is left without a chunk (lines 210-212, 227): stream.next()
\* gave None and the call returns Ok(v), or it gave Some(Err(_)) and `item?`
\* returns the error; v is dropped.
loop_exit_keeps_records(vec, it) == OkVec(vec)

loop_exit(vec, it) == IF it = "end" THEN OkVec(vec) ELSE ReqwestErr

InitDecode ==
    /\ dpc = "idle"
    /\ consumed = <<>>
    /\ item = "unread"
    /\ v = <<>>
    /\ dres = Pending

ConversationUrl == "/backend-api/conversation"

\* Lines 196-203: send().await? fails and the call returns the error.
DecodeSendFail ==
    /\ dpc = "idle"
    /\ dpc' = "done"
    /\ dres' = ReqwestErr
    /\ UNCHANGED <<consumed, item, v>>
    /\ UNCHANGED exceptDecode

\* Lines 205-208 and 229: the upstream answers; an error status goes to
\* err_handle, any other status opens the byte stream with an empty Vec.
DecodeStart ==
    /\ dpc = "idle"
    /\ \E resp \in Responses :
         IF error_for_status_ref(resp)
         THEN /\ dpc' = "done"
              /\ dres' = err_handle(resp.status, resp, ConversationUrl)
              /\ UNCHANGED <<consumed, v>>
         ELSE /\ dpc' = "streaming"
              /\ v' = <<>>
              /\ UNCHANGED <<consumed, dres>>
    /\ UNCHANGED item
    /\ UNCHANGED exceptDecode

\* stream.next() yields a chunk: one iteration of the loop.
DecodeChunk ==
    /\ dpc = "streaming"
    /\ \E chunk \in ChunksUpTo(MaxLines - TotalLines(consumed)) :
         LET nxt == AfterChunk(loop_body(v, chunk))
         IN /\ consumed' = Append(consumed, chunk)
            /\ dpc' = nxt.pc
            /\ v' = nxt.v
            /\ dres' = nxt.res
    /\ item' = "chunk"
    /\ UNCHANGED exceptDecode

\* stream.next() yields None: the loop ends and line 227 returns Ok(v).
DecodeEnd ==
    /\ dpc = "streaming"
    /\ dpc' = "done"
    /\ item' = "end"
    /\ dres' = loop_exit(v, item')
    /\ UNCHANGED <<consumed, v>>
    /\ UNCHANGED exceptDecode

\* stream.next() yields Some(Err(_)): `item?` (line 212) returns the transport
\* error, converted by From<reqwest::Error>.
DecodeItemErr ==
    /\ dpc = "streaming"
    /\ dpc' = "done"
    /\ item' = "error"
    /\ dres' = loop_exit(v, item')
    /\ UNCHANGED <<consumed, v>>
    /\ UNCHANGED exceptDecode

NextDecode == DecodeSendFail \/ DecodeStart \/ DecodeChunk \/ DecodeEnd \/ DecodeItemErr

\* The whole loop of lines 207-227 on a stream that yields `chunks` and then
\* ends, as a function of the stream.
RECURSIVE completions(_, _)
completions(vec, chunks) ==
    IF chunks = <<>> THEN OkVec(vec)
    ELSE LET nxt == AfterChunk(loop_body(vec, Head(chunks)))
         IN IF nxt.pc = "done" THEN nxt.res ELSE completions(nxt.v, Tail(chunks))

(***************************************************************************)
(* What the stream envelope says, line by line (spec 3 and 4.4), for the   *)
(* statements about decode-and-collect.                                    *)
(***************************************************************************)
RECURSIVE Flatten(_)
Flatten(chunks) == IF chunks = <<>> THEN <<>> ELSE Head(chunks) \o Flatten(Tail(chunks))

IsDataLine(l) == Len(l) > 0 /\ l[1] = DataPrefix /\ l # LineDone
IsWellFormedData(l) == l \in {LineA, LineB}
IsOtherLine(l) == Len(l) > 0 /\ l[1] # DataPrefix /\ l # LineInvalid

\* The index of the first sentinel line, or 0.
FirstDone(ls) ==
    IF \E i \in 1..Len(ls) : ls[i] = LineDone
    THEN CHOOSE i \in 1..Len(ls) : ls[i] = LineDone /\ \A j \in 1..(i - 1) : ls[j] # LineDone
    ELSE 0

\* The lines framed before the sentinel (all of them when there is none).
BeforeDone(ls) == IF FirstDone(ls) = 0 THEN ls ELSE SubSeq(ls, 1, FirstDone(ls) - 1)

\* The records of the well-formed data lines of ls, in order.
RECURSIVE RecordsOf(_)
RecordsOf(ls) ==
    IF ls = <<>> THEN <<>>
    ELSE IF IsWellFormedData(Head(ls))
         THEN <<from_str(<<Head(ls)[2]>>).rec>> \o RecordsOf(Tail(ls))
         ELSE RecordsOf(Tail(ls))

\* The chunks with every line that matches neither the data prefix nor the
\* sentinel taken out (a chunk left without a line is not sent).
RECURSIVE WithoutOther(_)
WithoutOther(chunks) ==
    IF chunks = <<>> THEN <<>>
    ELSE LET c == SelectSeq(Head(chunks), LAMBDA l : ~IsOtherLine(l))
         IN IF c = <<>> THEN WithoutOther(Tail(chunks))
            ELSE <<c>> \o WithoutOther(Tail(chunks))

\* The call has returned from the loop over the byte stream: at the
\* sentinel, at the end of the stream, or at a chunk it could not decode.
Collected ==
    /\ dpc = "done"
    /\ \/ dres.tag = "Ok"
       \/ dres.tag = "Err" /\ dres.err \in {"FromUtf8Error", "SerdeDeserializeError"}

\* C1 (as claimed): a stream of N well-formed data records (blank lines
\* between them allowed) followed by the sentinel returns exactly the N
\* records in input order, whatever follows the sentinel.
C1_AsClaimed ==
    (/\ Collected
     /\ FirstDone(Flatten(consumed)) > 0
     /\ \A i \in 1..Len(BeforeDone(Flatten(consumed))) :
            BeforeDone(Flatten(consumed))[i] \in {LineA, LineB, LineBlank})
    => dres = OkVec(RecordsOf(BeforeDone(Flatten(consumed))))

\* C2 (as claimed): a line that matches neither the data prefix nor the
\* sentinel is skipped: the call returns what it returns on the same stream
\* without those lines.
C2_AsClaimed ==
    Collected => dres = completions(<<>>, WithoutOther(consumed))

\* C3 (as claimed): a malformed data record before the sentinel makes the
\* call fail, and a successful call returns every data record framed before
\* the sentinel.
C3_AsClaimed ==
    (Collected /\ from_utf8_ok(Flatten(consumed)))
    => /\ (\E i \in 1..Len(BeforeDone(Flatten(consumed))) :
              /\ IsDataLine(BeforeDone(Flatten(consumed))[i])
              /\ ~IsWellFormedData(BeforeDone(Flatten(consumed))[i]))
          => dres.tag = "Err"
       /\ dres.tag = "Ok" => dres.v = RecordsOf(BeforeDone(Flatten(consumed)))

(***************************************************************************)
(* The gateway handlers (serve/mod.rs).  A header map is the sequence of   *)
(* its (name, value) pairs, a name repeated for each of its values.        *)
(***************************************************************************)
CONNECTION == "connection"
USER_AGENT == "user-agent"
AUTHORIZATION == "authorization"

InboundHeaders ==
    { <<CONNECTION, "keep-alive">>, <<USER_AGENT, "curl/8.0">>,
      <<AUTHORIZATION, "Bearer t1">>, <<"x-forwarded-for", "10.0.0.1">> }

UpstreamHeaders ==
    { <<"set-cookie", "a=1">>, <<"set-cookie", "b=2">>,
      <<"content-type", "text/event-stream">> }

GatewayStatuses == {200, 429}
BodyChunks == {"chunk1", "chunk2"}
ConversationIds == {"id1"}
JsonValues == {"{\"action\":\"next\"}"}

SeqsUpTo(S, n) == UNION {[1..k -> S] : k \in 0..n}

\* The routes of the /backend-api scope (lines 265-402): the inbound method
\* and path of the route macro, and the method and path the handler sends
\* upstream after URL_CHATGPT_BASE.
Routes ==
    {[name |-> "get_models", method |-> "GET", path |-> <<"/models">>,
      up_method |-> "GET", up_path |-> <<"/models">>, json |-> FALSE],
     [name |-> "get_account_check", method |-> "POST", path |-> <<"/accounts/check">>,
      up_method |-> "GET", up_path |-> <<"/accounts/check">>, json |-> FALSE],
     [name |-> "get_conversations", method |-> "GET", path |-> <<"/conversations">>,
      up_method |-> "GET",
      up_path |-> <<"/conversations", "?offset=", "0", "&limit=", "20", "&order=", "updated">>,
      json |-> FALSE],
     [name |-> "post_conversation", method |-> "POST", path |-> <<"/conversation">>,
      up_method |-> "POST", up_path |-> <<"/conversation">>, json |-> TRUE],
     [name |-> "patch_conversations", method |-> "PATCH", path |-> <<"/conversations">>,
      up_method |-> "PATCH", up_path |-> <<"/conversations">>, json |-> TRUE],
     [name |-> "post_conversation_message_feedback", method |-> "POST",
      path |-> <<"/conversation/message_feedbak">>,
      up_method |-> "POST", up_path |-> <<"/conversation/message_feedbak">>, json |-> TRUE]}
    \cup UNION {
    {[name |-> "get_conversation", method |-> "GET", path |-> <<"/conversation/", id>>,
      up_method |-> "GET", up_path |-> <<"/conversation/", id>>, json |-> FALSE],
     [name |-> "patch_conversation", method |-> "PATCH", path |-> <<"/conversation/", id>>,
      up_method |-> "PATCH", up_path |-> <<"/conversation/", id>>, json |-> TRUE],
     [name |-> "post_conversation_gen_title", method |-> "POST",
      path |-> <<"/conversation/gen_title/", id>>,
      up_method |-> "POST", up_path |-> <<"/conversation/gen_title/", id>>, json |-> TRUE]}
    : id \in ConversationIds}

\* header_convert that filters on the header value's name only for
\* Connection: User-Agent gets through.
header_convert_keeps_user_agent(headers) ==
    SelectSeq(headers, LAMBDA h : h[1] # CONNECTION)

\* header_convert (lines 404-413): filter, then collect appends each pair.
header_convert(headers) ==
    SelectSeq(headers, LAMBDA h : h[1] # CONNECTION /\ h[1] # USER_AGENT)

\* HttpResponseBuilder::insert_header: the pair replaces every pair already
\* set under the same name.
insert_header(headers, kv) ==
    Append(SelectSeq(headers, LAMBDA h : h[1] # kv[1]), kv)

\* resp.headers().into_iter().for_each(insert_header) (lines 426-428).
RECURSIVE insert_headers(_, _)
insert_headers(built, headers) ==
    IF headers = <<>> THEN built
    ELSE insert_headers(insert_header(built, Head(headers)), Tail(headers))

\* response_handle (lines 423-430): the status and the headers of the
\* response under construction; the body is the upstream byte stream.
response_handle(resp) ==
    [status |-> resp.status, headers |-> insert_headers(<<>>, resp.headers), body |-> <<>>]

\* response_internal_server_handle (lines 415-417).
response_internal_server_handle(err) ==
    [status |-> 500, headers |-> <<>>, body |-> <<err>>]

InitGateway ==
    /\ gpc = "idle"
    /\ greq = NoValue
    /\ upreq = NoValue
    /\ upresp = NoValue
    /\ gresp = NoValue
    /\ gsends = 0

\* A proxy handler up to send() (for instance lines 267-270): the request
\* is built from the route, header_convert(req.headers()) and the JSON body.
GatewayRequest ==
    /\ gpc = "idle"
    /\ \E route \in Routes, headers \in SeqsUpTo(InboundHeaders, MaxInHeaders), body \in JsonValues :
         /\ greq' = [tag |-> "Req", route |-> route.name, method |-> route.method,
                     path |-> route.path, headers |-> headers,
                     body |-> IF route.json THEN body ELSE ""]
         /\ upreq' = [tag |-> "Req", method |-> route.up_method, path |-> route.up_path,
                      headers |-> header_convert(headers),
                      body |-> IF route.json THEN body ELSE ""]
    /\ gpc' = "sent"
    /\ gsends' = gsends + 1
    /\ upresp' = NoValue
    /\ gresp' = NoValue
    /\ UNCHANGED exceptGateway

\* send() fails: Err(err) => response_internal_server_handle(err).
GatewaySendFail ==
    /\ gpc = "sent"
    /\ gpc' = "done"
    /\ upresp' = [tag |-> "SendFailed"]
    /\ gresp' = response_internal_server_handle("reqwest::Error")
    /\ greq' = NoValue
    /\ upreq' = NoValue
    /\ UNCHANGED gsends
    /\ UNCHANGED exceptGateway

\* The upstream's status line and headers arrive: Ok(resp) =>
\* response_handle(resp).  The handler returns and drops the request.
GatewayRespond ==
    /\ gpc = "sent"
    /\ \E status \in GatewayStatuses, headers \in SeqsUpTo(UpstreamHeaders, MaxRespHeaders) :
         /\ upresp' = [tag |-> "Resp", status |-> status, headers |-> headers, body |-> <<>>]
         /\ gresp' = response_handle([status |-> status, headers |-> headers])
    /\ gpc' = "streaming"
    /\ greq' = NoValue
    /\ upreq' = NoValue
    /\ UNCHANGED gsends
    /\ UNCHANGED exceptGateway

\* The streaming body polls resp.bytes_stream() (line 429): the chunk the
\* upstream sends is the chunk the caller gets.
GatewayChunk ==
    /\ gpc = "streaming"
    /\ Len(upresp.body) < MaxBody
    /\ \E chunk \in BodyChunks :
         /\ upresp' = [upresp EXCEPT !.body = Append(@, chunk)]
         /\ gresp' = [gresp EXCEPT !.body = Append(@, chunk)]
    /\ UNCHANGED <<gpc, greq, upreq, gsends>>
    /\ UNCHANGED exceptGateway

\* The byte stream ends and with it the response body.
GatewayEnd ==
    /\ gpc = "streaming"
    /\ gpc' = "done"
    /\ UNCHANGED <<greq, upreq, upresp, gresp, gsends>>
    /\ UNCHANGED exceptGateway

\* The worker takes the next request.
GatewayNext ==
    /\ gpc = "done"
    /\ gpc' = "idle"
    /\ upresp' = NoValue
    /\ gresp' = NoValue
    /\ gsends' = 0
    /\ UNCHANGED <<greq, upreq>>
    /\ UNCHANGED exceptGateway

NextGateway ==
    \/ GatewayRequest \/ GatewaySendFail \/ GatewayRespond
    \/ GatewayChunk \/ GatewayEnd \/ GatewayNext

\* The reqwest client Launcher::run builds for the handlers (lines 73-77):
\* chrome_builder, default_headers and cookie_store(false).  Neither timeout
\* nor connect_timeout is called, and a reqwest client has no timeout unless
\* one is set.
LauncherClient == [cookie_store |-> FALSE, timeout |-> NoValue]

\* The timer of a client built with a timeout ends a pending send() with a
\* transport error.
GatewayTimeout ==
    /\ LauncherClient.timeout # NoValue
    /\ GatewaySendFail

\* The names and the pairs of a header map.
Names(headers) == {headers[i][1] : i \in 1..Len(headers)}
Pairs(headers) == {headers[i] : i \in 1..Len(headers)}

\* C7 (as claimed): the caller receives the upstream's status, the
\* upstream's header set and the upstream's body chunks in their order.
C7_AsClaimed ==
    (gpc \in {"streaming", "done"} /\ upresp.tag = "Resp")
    => /\ gresp.status = upresp.status
       /\ Pairs(gresp.headers) = Pairs(upresp.headers)
       /\ gresp.body = upresp.body

\* No finite allow-list holds every name a caller can send; this is the one
\* the spec names "at minimum".
AllowList == {AUTHORIZATION}

\* C8 (as claimed): the headers sent upstream hold no Connection and no
\* User-Agent, hold the inbound Authorization, and hold only names of the
\* forwarding allow-list.
C8_AsClaimed ==
    gpc = "sent"
    => /\ CONNECTION \notin Names(upreq.headers)
       /\ USER_AGENT \notin Names(upreq.headers)
       /\ \A h \in Pairs(greq.headers) : h[1] = AUTHORIZATION => h \in Pairs(upreq.headers)
       /\ Names(upreq.headers) \subseteq AllowList

\* C8 (amended): the headers sent upstream hold no Connection and no
\* User-Agent, and hold every other inbound header (Authorization among
\* them), whatever its name, and nothing else: a deny-list of two names.
C8_DenyList ==
    gpc = "sent"
    => /\ CONNECTION \notin Names(upreq.headers)
       /\ USER_AGENT \notin Names(upreq.headers)
       /\ \A h \in Pairs(greq.headers) : h[1] = AUTHORIZATION => h \in Pairs(upreq.headers)
       /\ Pairs(upreq.headers) = {h \in Pairs(greq.headers) : h[1] \notin {CONNECTION, USER_AGENT}}

\* C8: a request with Connection, User-Agent and Authorization headers has
\* been sent upstream.
C8_Witness ==
    /\ gpc = "sent"
    /\ {CONNECTION, USER_AGENT, AUTHORIZATION} \subseteq Names(greq.headers)
    /\ AUTHORIZATION \in Names(upreq.headers)

(***************************************************************************)
(* The /oauth scope (serve/mod.rs, lines 221-263): do_access_token,        *)
(* do_refresh_token and do_revoke_token call the identity provider through *)
(* oauth_client().  The credential the lifecycle obtains is the one the    *)
(* typed client holds in access_token.                                     *)
(***************************************************************************)
OAuthRoutes == {"token", "refresh_token", "revoke_token"}

\* An Authorization header value and whether HeaderValue::to_str accepts it
\* (visible ASCII only).
HeaderValue(text, visible) == [tag |-> "HeaderValue", text |-> text, visible |-> visible]

\* What a caller may send as Authorization: nothing, "Bearer <token>", the
\* bare token, or bytes that are not visible ASCII.
Authorizations ==
    {NoValue, HeaderValue(<<InvalidBytes>>, FALSE)}
    \cup {HeaderValue(bearer_auth(t), TRUE) : t \in Tokens}
    \cup {HeaderValue(t, TRUE) : t \in Tokens}

to_str_ok(value) == value.visible

\* token_val.trim_start_matches("Bearer ") (lines 234 and 252).
RECURSIVE trim_start_matches_bearer(_)
trim_start_matches_bearer(text) ==
    IF Len(text) > 0 /\ text[1] = "Bearer "
    THEN trim_start_matches_bearer(Tail(text))
    ELSE text

RefreshRequired == "{ \"message\": \"refresh_token is required! \"}"
ToStrError == "failed to convert header to a str"
\* err.to_string() of a failed provider call: a rejection by the provider
\* or a transport failure.
OAuthErrors == {"invalid_grant", "error sending request"}

\* response_oauth_bad_handle that answers 200.
response_oauth_ok_handle(msg) ==
    [status |-> 200, headers |-> <<>>, body |-> <<msg>>]

\* response_oauth_bad_handle (lines 419-421).
response_oauth_bad_handle(msg) ==
    [status |-> 400, headers |-> <<>>, body |-> <<msg>>]

\* HttpResponse::Unauthorized().body(..) (lines 243 and 261).
response_unauthorized ==
    [status |-> 401, headers |-> <<>>, body |-> <<RefreshRequired>>]

\* HttpResponse::InternalServerError().json(err.to_string()) (lines 240, 258).
response_to_str_error ==
    [status |-> 500, headers |-> <<>>, body |-> <<ToStrError>>]

\* HttpResponse::Ok().json(token) (lines 224 and 236) and
\* HttpResponse::Ok().finish() (line 254), which has no body.
response_ok(route, token) ==
    [status |-> 200, headers |-> <<>>,
     body |-> IF route = "revoke_token" THEN <<>> ELSE <<token>>]

\* A handler that calls the provider whatever the request holds.
before_call_never(route, authorization) == NoValue

\* What a handler answers before any call to the provider, if anything:
\* do_refresh_token and do_revoke_token need a readable Authorization.
before_call(route, authorization) ==
    IF route = "token" THEN NoValue
    ELSE IF authorization = NoValue THEN response_unauthorized
    ELSE IF ~to_str_ok(authorization) THEN response_to_str_error
    ELSE NoValue

\* The argument of the provider call: the account of do_access_token, or
\* the token of the Authorization header without its "Bearer " prefix.
token_val(route, authorization) ==
    IF route = "token" \/ authorization = NoValue THEN <<"account">>
    ELSE trim_start_matches_bearer(authorization.text)

\* The store after a provider call that returned Ok.  "refresh: on success,
\* atomically replaces the Credential Store's contents", and authenticate
\* populates it; for revoke the code has no operation that empties
\* access_token, whose one write is refresh_token.
store_after_ok(route, store, new) ==
    IF route = "revoke_token" THEN store ELSE refresh_token(store, new)

InitOAuth ==
    /\ opc = "idle"
    /\ oreq = NoValue
    /\ ocall = NoValue
    /\ oresp = NoValue
    /\ osends = 0

\* A request reaches a handler of the /oauth scope; the handler answers at
\* once or calls the provider.  before: the credential held at that time.
OAuthRequest ==
    /\ opc = "idle"
    /\ \E route \in OAuthRoutes, authorization \in Authorizations :
         /\ route = "token" => authorization = NoValue
         /\ oreq' = [tag |-> "Req", route |-> route, authorization |-> authorization,
                     before |-> access_token]
         /\ IF before_call(route, authorization) # NoValue
            THEN /\ oresp' = before_call(route, authorization)
                 /\ ocall' = NoValue
                 /\ osends' = osends
                 /\ opc' = "done"
            ELSE /\ oresp' = NoValue
                 /\ ocall' = [tag |-> "Call", op |-> route,
                              token_val |-> token_val(route, authorization),
                              result |-> "pending", err |-> ""]
                 /\ osends' = osends + 1
                 /\ opc' = "called"
    /\ UNCHANGED access_token
    /\ UNCHANGED exceptOAuth

\* The provider call returns Ok.  do_access_token and do_refresh_token
\* answer the new token, which the lifecycle puts into the store; the write
\* waits for the requests that hold the read guard.  do_revoke_token
\* answers 200 and nothing else.
OAuthOk ==
    /\ opc = "called"
    /\ cpc # "sent"
    /\ \E new \in Tokens :
         /\ oresp' = response_ok(oreq.route, new)
         /\ access_token' = store_after_ok(oreq.route, access_token, new)
    /\ ocall' = [ocall EXCEPT !.result = "Ok"]
    /\ opc' = "done"
    /\ UNCHANGED <<oreq, osends>>
    /\ UNCHANGED exceptOAuth

\* The provider call returns Err(err): response_oauth_bad_handle.
OAuthErr ==
    /\ opc = "called"
    /\ \E err \in OAuthErrors :
         /\ oresp' = response_oauth_bad_handle(err)
         /\ ocall' = [ocall EXCEPT !.result = "Err", !.err = err]
    /\ opc' = "done"
    /\ UNCHANGED <<oreq, osends, access_token>>
    /\ UNCHANGED exceptOAuth

\* The worker takes the next request.
OAuthNext ==
    /\ opc = "done"
    /\ opc' = "idle"
    /\ oreq' = NoValue
    /\ ocall' = NoValue
    /\ oresp' = NoValue
    /\ osends' = 0
    /\ UNCHANGED access_token
    /\ UNCHANGED exceptOAuth

NextOAuth == OAuthRequest \/ OAuthOk \/ OAuthErr \/ OAuthNext

(***************************************************************************)
(* The rate limiter (serve/tokenbucket.rs and serve/middleware.rs, spec    *)
(* 4.2).  Launcher::run builds one TokenBucket in each worker's app        *)
(* factory (lines 141-145) from tb_capacity, tb_fill_rate and tb_expired.  *)
(* Times are in ticks and token counts in units of 1/TicksPerSecond.       *)
(***************************************************************************)
Workers == {"w1", "w2"}
Keys == {"10.0.0.1"}

\* tb_capacity (tokens), tb_fill_rate (tokens a second), tb_expired (seconds).
Settings == [capacity : {1, 2, 5}, fill_rate : {1, 2}, expired : {1, 2}]

\* admit(key, cost = 1).
Cost == 1

Min(a, b) == IF a < b THEN a ELSE b

capacity_units(cfg) == cfg.capacity * TicksPerSecond
cost_units == Cost * TicksPerSecond

\* A key never seen.  tokens and idle of an evicted bucket are what it held
\* when it was evicted and the ticks since its last check: history, no longer
\* in the table.  burst numbers the checks of a run without elapsed time that
\* began on a full bucket, up to the run's first rejection; 0 outside a run.
NoBucket == [state |-> "absent", tokens |-> 0, idle |-> 0, burst |-> 0]

\* A time in ticks as a fraction.
NoWait == [num |-> 0, den |-> 1]

\* The estimated wait without the count the bucket already holds.
retry_after_ignores_tokens(cfg, tokens) == [num |-> cost_units, den |-> cfg.fill_rate]

\* "an estimated wait time computed as (cost - current_tokens) / refill_rate
\* seconds": in ticks, the missing units over fill_rate units a tick.
retry_after(cfg, tokens) == [num |-> cost_units - tokens, den |-> cfg.fill_rate]

\* The place of a check in a run of checks without elapsed time.
burst(cfg, b, tokens) ==
    IF tokens = capacity_units(cfg) THEN 1
    ELSE IF b.state = "live" /\ b.idle = 0 /\ b.burst \in 1..cfg.capacity THEN b.burst + 1
    ELSE 0

\* The refill without the cap at capacity.
refill_uncapped(cfg, b) == b.tokens + b.idle * cfg.fill_rate

\* "first advance the bucket's token count by elapsed_seconds * refill_rate,
\* capped at capacity": a rate of fill_rate tokens a second is fill_rate
\* units a tick.  A bucket created by this check starts at capacity.
refill(cfg, b) ==
    IF b.state = "live"
    THEN Min(capacity_units(cfg), b.tokens + b.idle * cfg.fill_rate)
    ELSE capacity_units(cfg)

\* An admit that takes the cost whatever the count is.
admit_always_spends(cfg, b) ==
    LET tokens == refill(cfg, b)
    IN [result |-> IF tokens >= cost_units THEN "Admitted" ELSE "Rejected",
        refilled |-> tokens, tokens |-> tokens - cost_units,
        retry_after |-> IF tokens >= cost_units THEN NoWait ELSE retry_after(cfg, tokens)]

\* "then, if current_tokens >= cost, subtract cost and return Admitted;
\* otherwise return Rejected with an estimated wait time".
admit(cfg, b) ==
    LET tokens == refill(cfg, b)
    IN IF tokens >= cost_units
       THEN [result |-> "Admitted", refilled |-> tokens, tokens |-> tokens - cost_units,
             retry_after |-> NoWait]
       ELSE [result |-> "Rejected", refilled |-> tokens, tokens |-> tokens,
             retry_after |-> retry_after(cfg, tokens)]

InitBucket ==
    /\ tb = NoValue
    /\ buckets = [w \in Workers |-> [k \in Keys |-> NoBucket]]
    /\ last = NoValue
    /\ clock = 0
    /\ admitted = [k \in Keys |-> 0]
    /\ launcher = NoValue

\* Launcher::run (lines 139-187).  With tb_enable every worker's TokenBucket
\* is built from the same three settings (lines 140-142); without it
\* default_serve runs and no TokenBucket is built.
Launch ==
    /\ launcher = NoValue
    /\ \/ \E cfg \in Settings :
            /\ launcher' = [tag |-> "Launcher", tb_enable |-> TRUE]
            /\ tb' = [tag |-> "TokenBucket"] @@ cfg
       \/ /\ launcher' = [tag |-> "Launcher", tb_enable |-> FALSE]
          /\ UNCHANGED tb
    /\ UNCHANGED <<buckets, last, clock, admitted>>
    /\ UNCHANGED exceptBucket

\* One admission check of worker w's TokenBucket for key k: the refill and
\* the decision in one critical section.
Check(w, k) ==
    /\ tb # NoValue
    /\ LET b == buckets[w][k]
           a == admit(tb, b)
       IN /\ buckets' = [buckets EXCEPT ![w][k] =
                            [state |-> "live", tokens |-> a.tokens, idle |-> 0,
                             burst |-> burst(tb, b, a.refilled)]]
          /\ last' = [tag |-> "Check", worker |-> w, key |-> k, result |-> a.result,
                      refilled |-> a.refilled, retry_after |-> a.retry_after, prev |-> b]
          /\ admitted' = [admitted EXCEPT ![k] = IF a.result = "Admitted" THEN @ + 1 ELSE @]
    /\ UNCHANGED <<tb, clock, launcher>>

\* A request for key k reaches worker w's TokenBucketRateLimiter.
Admit(w, k) ==
    /\ Check(w, k)
    /\ UNCHANGED exceptBucket

\* The clock advances by one tick; no bucket is touched.
Tick ==
    /\ \E w \in Workers, k \in Keys : buckets[w][k].state # "absent"
    /\ \A w \in Workers, k \in Keys : buckets[w][k].idle < MaxIdle
    /\ clock < MaxClock
    /\ clock' = clock + 1
    /\ buckets' = [w \in Workers |-> [k \in Keys |->
                     IF buckets[w][k].state = "absent" THEN buckets[w][k]
                     ELSE [buckets[w][k] EXCEPT !.idle = @ + 1]]]
    /\ UNCHANGED <<tb, last, admitted, launcher>>
    /\ UNCHANGED exceptBucket

\* "Buckets for keys idle longer than the configured expiry are evicted."
Evict(w, k) ==
    /\ tb # NoValue
    /\ buckets[w][k].state = "live"
    /\ buckets[w][k].idle > tb.expired * TicksPerSecond
    /\ buckets' = [buckets EXCEPT ![w][k].state = "evicted"]
    /\ UNCHANGED <<tb, last, clock, admitted, launcher>>
    /\ UNCHANGED exceptBucket

NextBucket ==
    \/ Launch
    \/ \E w \in Workers, k \in Keys : Admit(w, k)
    \/ Tick
    \/ \E w \in Workers, k \in Keys : Evict(w, k)

(***************************************************************************)
(* The service chain of one request (Launcher::run, lines 96-188).  With   *)
(* tb_enable the App wraps TokenBucketRateLimiter around both scopes       *)
(* (line 145), so the limiter's check comes before every handler; without  *)
(* it default_serve (lines 96-137) has no limiter.                         *)
(***************************************************************************)
\* A Launcher that runs default_serve whatever tb_enable is.
tb_enable_ignored(l) == FALSE

\* `if self.tb_enable` (line 140): the App of lines 143-164, wrapped in the
\* limiter, serves the requests; otherwise default_serve does.
tb_enable(l) == l.tb_enable

\* TokenBucketRateLimiter: the request goes on to the next service unless
\* its check was Rejected ("none": the chain has no limiter).
forward(result) == result \in {"Admitted", "none"}

\* "Rate-limit rejections are returned synchronously with an advisory wait
\* time": the answer to a rejected request.
response_too_many_requests(wait) ==
    [status |-> 429, retry_after |-> wait, from |-> "limiter"]

\* What a handler answers: the upstream's status (response_handle) or 500
\* (response_internal_server_handle).
response_of_handler(status) ==
    [status |-> status, retry_after |-> NoWait, from |-> "handler"]

InitServe ==
    /\ spc = "idle"
    /\ sreq = NoValue

\* Worker w accepts a request of key k.  With tb_enable the limiter checks
\* it first and answers a rejected request itself; otherwise the request is
\* handed to the handler.
ServeAccept(w, k) ==
    /\ spc = "idle"
    /\ launcher # NoValue
    /\ IF tb_enable(launcher)
       THEN /\ Check(w, k)
            /\ sreq' = [tag |-> "Req", worker |-> w, key |-> k, admission |-> last'.result,
                        upstream |-> "none",
                        response |-> IF forward(last'.result) THEN NoValue
                                     ELSE response_too_many_requests(last'.retry_after)]
            /\ spc' = IF forward(last'.result) THEN "handler" ELSE "answered"
       ELSE /\ sreq' = [tag |-> "Req", worker |-> w, key |-> k, admission |-> "none",
                        upstream |-> "none", response |-> NoValue]
            /\ spc' = "handler"
            /\ UNCHANGED bucketVars
    /\ UNCHANGED exceptServe

\* The handler sends its request upstream (for instance lines 267-270).
ServeSend ==
    /\ spc = "handler"
    /\ spc' = "sent"
    /\ sreq' = [sreq EXCEPT !.upstream = "sent"]
    /\ UNCHANGED bucketVars
    /\ UNCHANGED exceptServe

\* The upstream answers, or send() fails, and the handler answers the caller.
ServeRespond ==
    /\ spc = "sent"
    /\ spc' = "answered"
    /\ \/ \E status \in GatewayStatuses :
            sreq' = [sreq EXCEPT !.upstream = "answered",
                                 !.response = response_of_handler(status)]
       \/ sreq' = [sreq EXCEPT !.upstream = "failed",
                               !.response = response_of_handler(500)]
    /\ UNCHANGED bucketVars
    /\ UNCHANGED exceptServe

\* The worker takes the next request.
ServeNext ==
    /\ spc = "answered"
    /\ spc' = "idle"
    /\ sreq' = NoValue
    /\ UNCHANGED bucketVars
    /\ UNCHANGED exceptServe

NextServe ==
    \/ Launch
    \/ \E w \in Workers, k \in Keys : ServeAccept(w, k)
    \/ ServeSend
    \/ ServeRespond
    \/ ServeNext
    \/ Tick
    \/ \E w \in Workers, k \in Keys : Evict(w, k)

\* C9: after every step each bucket's count is within [0, capacity], and
\* the last check took exactly cost from the refilled count if and only if
\* it returned Admitted; a Rejected check took nothing.
C9_Conservation ==
    /\ \A w \in Workers, k \in Keys :
         buckets[w][k].state # "absent"
         => (0 <= buckets[w][k].tokens /\ buckets[w][k].tokens <= capacity_units(tb))
    /\ last # NoValue
       => LET b == buckets[last.worker][last.key]
          IN /\ last.result \in {"Admitted", "Rejected"}
             /\ last.result = "Admitted" <=> b.tokens = last.refilled - cost_units
             /\ last.result = "Rejected" <=> b.tokens = last.refilled
             /\ last.result = "Admitted" <=> last.refilled >= cost_units

\* C9: a check has been rejected on a bucket that earlier checks emptied,
\* and the bucket keeps the part of a token it had.
C9_Witness ==
    /\ last # NoValue
    /\ last.result = "Rejected"
    /\ last.prev.state = "live"
    /\ last.refilled > 0
    /\ buckets[last.worker][last.key].tokens = last.refilled

\* The count min(capacity, previous_tokens + t * refill_rate) of the claim,
\* for the bucket the last check found.
LazyRefill == Min(capacity_units(tb), last.prev.tokens + last.prev.idle * tb.fill_rate)

OnlyChecksRefill ==
    last' = last => \A w \in Workers, k \in Keys : buckets'[w][k].tokens = buckets[w][k].tokens

InScenario == tb # NoValue /\ tb.capacity = 5 /\ tb.fill_rate = 1

\* The bucket the last check left behind.
Checked == buckets[last.worker][last.key]

\* A check is rejected exactly when the refilled count is below cost, and
\* its wait is (cost - current_tokens) / refill_rate.
RejectedWithWait ==
    last # NoValue
    => /\ last.result = "Rejected" <=> last.refilled < cost_units
       /\ last.result = "Rejected"
          => last.retry_after = [num |-> cost_units - last.refilled, den |-> tb.fill_rate]
       /\ last.result = "Admitted" => last.retry_after = NoWait

\* In the scenario the first five checks of a run on a full bucket are
\* Admitted and the sixth is Rejected with a wait of one second.
FiveThenRejected ==
    (last # NoValue /\ InScenario)
    => /\ Checked.burst \in 1..5 => last.result = "Admitted"
       /\ Checked.burst = 6
          => /\ last.result = "Rejected"
             /\ last.retry_after.num = TicksPerSecond * last.retry_after.den

\* The last check came two seconds after the sixth check of the scenario.
TwoSecondsLater ==
    /\ last # NoValue
    /\ InScenario
    /\ last.prev.state # "absent"
    /\ last.prev.burst = 6
    /\ last.prev.idle = 2 * TicksPerSecond

Available(k) == capacity_units(tb) + clock * tb.fill_rate

\* C12 (as claimed): whatever the interleaving of the checks, the Admitted
\* results of a key since the launch never cost more than the tokens
\* available to the key in that time, the initial tokens plus the refill.
C12_AsClaimed ==
    tb # NoValue => \A k \in Keys : admitted[k] * cost_units <= Available(k)

\* The workers that hold a bucket for key k in their table.
Holders(k) == {w \in Workers : buckets[w][k].state = "live"}

\* C13 (as claimed): the process holds at most one bucket for an admission
\* key, so every check of the key is charged to the same bucket; a bucket
\* exists only after the key's first check and leaves the table only after
\* the idle expiry.
C13_AsClaimed ==
    \A k \in Keys :
        /\ Cardinality(Holders(k)) <= 1
        /\ last = NoValue => Holders(k) = {}
        /\ \A w \in Workers :
              buckets[w][k].state = "evicted"
              => buckets[w][k].idle > tb.expired * TicksPerSecond

\* C14: with tb_enable no request has an upstream call before the limiter
\* admitted it, and a rejected request is answered in the step of its check
\* with 429 and the wait, without an upstream call; without tb_enable a
\* request reaches the handler and no admission check is ever made.
C14_AdmitBeforeUpstream ==
    spc # "idle"
    => /\ launcher.tb_enable
          => /\ sreq.admission \in {"Admitted", "Rejected"}
             /\ sreq.upstream # "none" => sreq.admission = "Admitted"
             /\ sreq.admission = "Rejected"
                => /\ spc = "answered"
                   /\ sreq.upstream = "none"
                   /\ sreq.response = response_too_many_requests(last.retry_after)
                   /\ last.retry_after.num > 0
       /\ ~launcher.tb_enable
          => /\ sreq.admission = "none"
             /\ last = NoValue
             /\ \A k \in Keys : admitted[k] = 0
             /\ spc \in {"handler", "sent", "answered"}

\* C14: with tb_enable a request found its key's bucket empty and was
\* answered by the limiter.
C14_Witness ==
    /\ spc = "answered"
    /\ launcher.tb_enable
    /\ sreq.admission = "Rejected"
    /\ sreq.upstream = "none"
    /\ sreq.response.status = 429

(***************************************************************************)
(* The response classifier                                                 *)
(***************************************************************************)
Answered == cpc = "done" /\ cresp.tag = "Resp"
Pieces(msg) == {msg[i] : i \in 1..Len(msg)}

\* C4: a 401 whose body was read is BadAuthentication and a 429 is
\* TooManyRequests, and the error message holds the upstream body text.
C4_Unauthorized_TooMany ==
    (Answered /\ cresp.resp.readable)
    => /\ cresp.resp.status = 401
          => (cres.tag = "Err" /\ cres.err = "BadAuthenticationError"
              /\ cresp.resp.body \in Pieces(cres.msg))
       /\ cresp.resp.status = 429
          => (cres.tag = "Err" /\ cres.err = "TooManyRequestsError"
              /\ cresp.resp.body \in Pieces(cres.msg))

\* C4: a call answered 429 with a readable body has returned.
C4_Witness ==
    /\ Answered
    /\ cresp.resp.status = 429
    /\ cresp.resp.readable
    /\ cresp.resp.body = BodyText
    /\ cres.tag = "Err"

\* C5 (as claimed): every 4xx other than 401 and 429 is BadRequest with the
\* upstream body in the message.
C5_AsClaimed ==
    (/\ Answered
     /\ cresp.resp.readable
     /\ is_client_error(cresp.resp.status)
     /\ cresp.resp.status \notin {401, 429})
    => (cres.tag = "Err" /\ cres.err = "BadRequestError"
        /\ cresp.resp.body \in Pieces(cres.msg))

\* A success status whose body does not decode.
DecodeFailed ==
    /\ Answered
    /\ ~error_for_status_ref(cresp.resp)
    /\ cres.tag = "Err"

ServerStatuses == {500, 502, 503, 504}

Credentials == {EmptyToken} \cup Tokens

RefreshFailed ==
    /\ opc = "done"
    /\ oreq.route = "refresh_token"
    /\ ocall # NoValue
    /\ ocall.result = "Err"

\* C16: a failed refresh is answered with the error, 400 and the error
\* text, and the store holds what it held before the refresh: a read gives
\* the token held before.
C16_FailedRefresh ==
    RefreshFailed
    => /\ oresp.status = 400
       /\ oresp.body = <<ocall.err>>
       /\ ocall.err \in OAuthErrors
       /\ access_token = oreq.before
       /\ bearer_auth(access_token) = bearer_auth(oreq.before)

\* C16: a refresh failed while the store held a token.
C16_Witness ==
    /\ RefreshFailed
    /\ oreq.before \in Tokens
    /\ access_token = oreq.before

\* A revoke of the token the store holds has returned.
Revoked ==
    /\ opc = "done"
    /\ oreq.route = "revoke_token"
    /\ ocall # NoValue
    /\ ocall.token_val = oreq.before

\* C17 (as claimed): after the revoke of a token, whatever the outcome of
\* the call, the store no longer yields that token.
C17_AsClaimed ==
    Revoked => access_token # ocall.token_val

\* C18: a request that fails a check made before dispatch is answered in
\* its first step and nothing is sent: refresh_token and revoke_token
\* without Authorization answer 401 with no provider call; get_conversation
\* and patch_conversation without a conversation id return
\* RequiredParameter, and request_payload with GET returns FailedRequest,
\* with no upstream request.
C18_NoDispatch ==
    /\ (/\ opc # "idle"
        /\ oreq.route \in {"refresh_token", "revoke_token"}
        /\ oreq.authorization = NoValue)
       => (opc = "done" /\ oresp.status = 401 /\ ocall = NoValue)
    /\ (/\ cpc # "idle"
        /\ ccall.name \in {"get_conversation", "patch_conversation"}
        /\ ccall.conversation_id = None)
       => /\ cpc = "done"
          /\ cres = Err("RequiredParameter", <<"conversation_id">>)
          /\ creq = NoValue /\ cresp = NoValue
    /\ (cpc # "idle" /\ ccall.via = "request_payload" /\ ccall.method = "GET")
       => /\ cpc = "done"
          /\ cres.tag = "Err" /\ cres.err = "FailedRequestError"
          /\ creq = NoValue /\ cresp = NoValue

\* C18: request_payload was called with GET and revoke_token without an
\* Authorization header, and both have returned.
C18_Witness ==
    /\ cpc = "done"
    /\ ccall.name = "request_payload" /\ ccall.method = "GET"
    /\ cres.tag = "Err"
    /\ creq = NoValue
    /\ opc = "done"
    /\ oreq.route = "revoke_token" /\ oreq.authorization = NoValue
    /\ oresp.status = 401

\* C19 (as claimed): every upstream call ends within a bounded time: a
\* handler that has sent its request gets an answer or a transport error,
\* even when the upstream never answers.
C19_AsClaimed == (gpc = "sent") ~> (gpc # "sent")

\* A proxy handler has returned: its response mirrors the upstream's status,
\* or is 500 with the error text when send() failed.
ProxyAnswered ==
    gpc \in {"streaming", "done"}
    => /\ gresp # NoValue
       /\ upresp.tag = "Resp" => gresp.status = upresp.status
       /\ upresp.tag = "SendFailed"
          => (gresp.status = 500 /\ gresp.body = <<"reqwest::Error">>)

\* An /oauth handler has returned after the provider failed, or without an
\* Authorization header.
OAuthFailed == ocall # NoValue /\ ocall.result = "Err"
OAuthSucceeded == ocall # NoValue /\ ocall.result = "Ok"
AuthorizationMissing == oreq.route # "token" /\ oreq.authorization = NoValue
AuthorizationUnreadable ==
    /\ oreq.route # "token"
    /\ oreq.authorization # NoValue
    /\ ~to_str_ok(oreq.authorization)

OAuthAnswered ==
    opc = "done"
    => /\ oresp # NoValue
       /\ OAuthSucceeded
          => /\ oresp.status = 200
             /\ oresp.body = <<>> <=> oreq.route = "revoke_token"
       /\ OAuthFailed => (oresp.status = 400 /\ oresp.body = <<ocall.err>>)
       /\ AuthorizationMissing => (oresp.status = 401 /\ oresp.body # <<>>)
       /\ AuthorizationUnreadable => (oresp.status = 500 /\ oresp.body = <<ToStrError>>)
       /\ \/ OAuthSucceeded \/ OAuthFailed
          \/ AuthorizationMissing \/ AuthorizationUnreadable

\* A response, once returned, stays the answer to its request: no second
\* status or header set, and the body only grows by the streamed chunks.
AnsweredOnce ==
    /\ (oresp # NoValue /\ oresp' # NoValue) => oresp' = oresp
    /\ (gresp # NoValue /\ gresp' # NoValue)
       => /\ gresp'.status = gresp.status
          /\ gresp'.headers = gresp.headers
          /\ \/ gresp'.body = gresp.body
             \/ /\ gpc = "streaming"
                /\ Len(gresp'.body) = Len(gresp.body) + 1
                /\ SubSeq(gresp'.body, 1, Len(gresp.body)) = gresp.body

Runs == 1..MaxRuns

\* The clients one call of run builds (lines 73-82): each call builds its
\* own pair.
built_client(r) == [tag |-> "Client", by |-> r]

built_oauth_client(r) == [tag |-> "OAuthClient", by |-> r]

\* Once::call_once runs the closure unless an earlier call has completed
\* it; a call that finds the closure running waits for it.
call_once_every_time(init) == init # "running"

call_once(init) == init = "incomplete"

\* panic!("The requesting client must be initialized") (lines 35, 42).
Panic == [tag |-> "panic"]

\* client() (lines 31-36): a clone of the stored client, or a panic.
client(c) == IF c # None THEN c[1] ELSE Panic

\* oauth_client() (lines 38-43).
oauth_client(c) == IF c # None THEN c[1] ELSE Panic

InitStatic ==
    /\ INIT = "incomplete"
    /\ CLIENT = None
    /\ OAUTH_CLIENT = None
    /\ rpc = [r \in Runs |-> "idle"]
    /\ inits = <<>>
    /\ hpc = "idle"
    /\ hread = NoValue

\* run builds its two clients (lines 67-82); build()? may return an error.
RunBuild(r) ==
    /\ rpc[r] = "idle"
    /\ \/ rpc' = [rpc EXCEPT ![r] = "built"]
       \/ rpc' = [rpc EXCEPT ![r] = "returned"]
    /\ UNCHANGED <<INIT, CLIENT, OAUTH_CLIENT, inits, hpc, hread>>
    /\ UNCHANGED exceptStatic

\* INIT.call_once (lines 84-89): the closure starts and stores the client
\* (line 86), or it has been completed before and the call returns; the
\* clients this call built are then dropped.
RunCallOnce(r) ==
    /\ rpc[r] = "built"
    /\ INIT # "running"
    /\ IF call_once(INIT)
       THEN /\ INIT' = "running"
            /\ CLIENT' = Some(built_client(r))
            /\ inits' = Append(inits, r)
            /\ rpc' = [rpc EXCEPT ![r] = "once"]
            /\ UNCHANGED OAUTH_CLIENT
       ELSE /\ rpc' = [rpc EXCEPT ![r] = "serving"]
            /\ UNCHANGED <<INIT, CLIENT, OAUTH_CLIENT, inits>>
    /\ UNCHANGED <<hpc, hread>>
    /\ UNCHANGED exceptStatic

\* The closure stores the OAuth client (line 87) and completes; run goes
\* on to start its server.
RunCallOnceEnd(r) ==
    /\ rpc[r] = "once"
    /\ OAUTH_CLIENT' = Some(built_oauth_client(r))
    /\ INIT' = "complete"
    /\ rpc' = [rpc EXCEPT ![r] = "serving"]
    /\ UNCHANGED <<CLIENT, inits, hpc, hread>>
    /\ UNCHANGED exceptStatic

\* The server of this call ends (bind fails, or it is shut down) and run
\* returns.
RunReturn(r) ==
    /\ rpc[r] = "serving"
    /\ hpc = "idle"
    /\ rpc' = [rpc EXCEPT ![r] = "returned"]
    /\ UNCHANGED <<INIT, CLIENT, OAUTH_CLIENT, inits, hpc, hread>>
    /\ UNCHANGED exceptStatic

\* A worker of a running server runs a handler, which takes its client:
\* client() in the /backend-api scope, oauth_client() in the /oauth scope.
HandlerRead(r) ==
    /\ rpc[r] = "serving"
    /\ hpc = "idle"
    /\ hpc' = "read"
    /\ \E scope \in {"/backend-api", "/oauth"} :
         hread' = [tag |-> "Read", server |-> r, scope |-> scope,
                   value |-> IF scope = "/oauth" THEN oauth_client(OAUTH_CLIENT)
                                                ELSE client(CLIENT)]
    /\ UNCHANGED <<INIT, CLIENT, OAUTH_CLIENT, rpc, inits>>
    /\ UNCHANGED exceptStatic

\* The handler returns.
HandlerReturn ==
    /\ hpc = "read"
    /\ hpc' = "idle"
    /\ hread' = NoValue
    /\ UNCHANGED <<INIT, CLIENT, OAUTH_CLIENT, rpc, inits>>
    /\ UNCHANGED exceptStatic

NextStatic ==
    \/ \E r \in Runs : RunBuild(r) \/ RunCallOnce(r) \/ RunCallOnceEnd(r) \/ RunReturn(r)
    \/ \E r \in Runs : HandlerRead(r)
    \/ HandlerReturn

(***************************************************************************)
(* C22: the process-wide clients are set once                              *)
(***************************************************************************)
\* What the first initialisation stored.
FirstStored(c) ==
    /\ inits # <<>>
    /\ c = (IF c.tag = "Client" THEN built_client(inits[1]) ELSE built_oauth_client(inits[1]))

SetOnce ==
    /\ Len(inits) <= 1
    /\ INIT = "complete" =>
         /\ CLIENT = Some(built_client(inits[1]))
         /\ OAUTH_CLIENT = Some(built_oauth_client(inits[1]))
    /\ hread # NoValue =>
         /\ hread.value # Panic
         /\ FirstStored(hread.value)
         /\ hread.value.tag = (IF hread.scope = "/oauth" THEN "OAuthClient" ELSE "Client")

\* C22: the process-wide HTTP client and OAuth client are set exactly once:
\* once the first call_once has completed, no step of a later run call or of
\* a handler changes them; every handler reads what the first
\* initialisation stored, and no handler finds them unset and panics.
C22_AsClaimed ==
    /\ []SetOnce
    /\ [][INIT = "complete" => UNCHANGED <<CLIENT, OAUTH_CLIENT>>]_vars

\* C22: a handler of the server a second call of run started has read the
\* OAuth client the first call stored.
C22_Witness ==
    /\ hread # NoValue
    /\ hread.scope = "/oauth"
    /\ hread.server # inits[1]
    /\ hread.value = built_oauth_client(inits[1])
    /\ \E r \in Runs : r # inits[1] /\ rpc[r] = "serving"

(***************************************************************************)
(* C23: grouping of lines into chunks                                      *)
(***************************************************************************)
\* The same lines, every line in a chunk of its own.
OneLinePerChunk(chunks) == [i \in 1..Len(Flatten(chunks)) |-> <<Flatten(chunks)[i]>>]

\* C23 (as claimed): every non-empty line is classified on its own, so the
\* call returns the same records, or the same error, for every way of
\* grouping the same whole lines into chunks: what it returns on the stream
\* it read is what it returns when every line arrives in a chunk of its own.
C23_AsClaimed ==
    Collected => dres = completions(<<>>, OneLinePerChunk(consumed))

(***************************************************************************)
(* C24: the stream ends, or a chunk read fails                             *)
(***************************************************************************)
\* The records of the chunks the loop decoded, in the order of the stream.
DecodedSoFar == RecordsOf(Flatten(SelectSeq(consumed, starts_with_data_brace)))

\* C24: when the upstream stream ends and no sentinel has ended the loop,
\* the call has terminated and returns Ok with the records decoded so far,
\* in order; when reading a chunk gives a transport error, the call has
\* terminated with an error, which carries no records.
C24_AsClaimed ==
    /\ item = "end" =>
         /\ dpc = "done"
         /\ dres = OkVec(v)
         /\ v = DecodedSoFar
    /\ item = "error" =>
         /\ dpc = "done"
         /\ dres.tag = "Err"

\* C24: the stream has ended after two records and without a sentinel, and
\* the call has returned the two records.
C24_Witness ==
    /\ item = "end"
    /\ FirstDone(Flatten(consumed)) = 0
    /\ Len(v) = 2
    /\ dres = OkVec(v)

(***************************************************************************)
(* C25: the upstream request of a proxy route                              *)
(***************************************************************************)
\* The path of a URL after the base: what stands before the query string.
PathOf(url) ==
    IF \E i \in 1..Len(url) : url[i] = "?offset="
    THEN SubSeq(url, 1, (CHOOSE i \in 1..Len(url) : url[i] = "?offset=") - 1)
    ELSE url

\* C25 (as claimed): a proxy handler that has sent has sent one upstream
\* request, whose method is the method of the inbound route and whose path
\* is the inbound route path after the upstream base; on a route with a
\* JSON body the upstream body is the inbound body.
C25_AsClaimed ==
    gpc = "sent" =>
        /\ gsends = 1
        /\ upreq.method = greq.method
        /\ PathOf(upreq.path) = greq.path
        /\ upreq.body = greq.body

(***************************************************************************)
(* C21: no retries                                                         *)
(***************************************************************************)
\* C21: the core never retries: an inbound gateway request and a call of
\* the typed client each issue at most one upstream request, and an /oauth
\* handler calls the provider client at most once, whether the outcome is a
\* success, a classified upstream error or a transport failure; a call that
\* has returned after sending has sent exactly once.
C21_AsClaimed ==
    /\ csends <= 1
    /\ gsends <= 1
    /\ osends <= 1
    /\ cpc = "done" => csends = (IF cresp = NoValue THEN 0 ELSE 1)
    /\ gpc \in {"streaming", "done"} => gsends = 1
    /\ opc = "done" => osends = (IF ocall = NoValue THEN 0 ELSE 1)

\* C21: a call of the typed client has returned the classified error of a
\* 500 answer after it had sent one request.
C21_Witness ==
    /\ cpc = "done"
    /\ cresp # NoValue
    /\ cresp.tag = "Resp"
    /\ cres.tag = "Err"
    /\ cres.err = "ServerError"
    /\ csends = 1

Init ==
    /\ InitDecode /\ InitClient /\ InitGateway /\ InitOAuth /\ InitBucket /\ InitServe
    /\ InitStatic
Next ==
    \/ NextDecode \/ NextClient \/ NextGateway \/ NextOAuth \/ NextBucket \/ NextServe
    \/ NextStatic
Spec == Init /\ [][Next]_vars

\* One component at a time, the others at rest.
SpecDecode == Init /\ [][NextDecode]_vars
SpecClient == Init /\ [][NextClient]_vars
SpecGateway == Init /\ [][NextGateway]_vars

\* The gateway with what the code makes happen sooner or later: the timer
\* of the client, if it has one, fires, and a worker that has answered
\* takes the next request.  Whether the upstream answers is up to the
\* upstream.
SpecGatewayLive ==
    Init /\ [][NextGateway]_vars /\ WF_vars(GatewayTimeout) /\ WF_vars(GatewayNext)
SpecBucket == Init /\ [][NextBucket]_vars
SpecServe == Init /\ [][NextServe]_vars
SpecOAuth == Init /\ [][NextOAuth]_vars

\* The handlers of both scopes as one worker task runs them, a request at
\* a time.
HandleProxy == opc = "idle" /\ NextGateway
HandleOAuth == gpc = "idle" /\ NextOAuth
SpecHandlers == Init /\ [][HandleProxy \/ HandleOAuth]_vars

\* The typed client and the /oauth handlers side by side.
SpecDispatch == Init /\ [][NextClient \/ NextOAuth]_vars

\* The core, a request or call at a time: a proxy handler, an /oauth
\* handler or a call of the typed client.
CoreProxy == opc = "idle" /\ cpc = "idle" /\ NextGateway
CoreOAuth == gpc = "idle" /\ cpc = "idle" /\ NextOAuth
CoreClient == gpc = "idle" /\ opc = "idle" /\ NextClient
SpecCore == Init /\ [][CoreProxy \/ CoreOAuth \/ CoreClient]_vars

\* The calls of Launcher::run and the handlers of the servers they start.
SpecStatic == Init /\ [][NextStatic]_vars
====
